---- MODULE Spec2Model ----
(***************************************************************************)
(* A model of the Medium tag scraper (src/index.ts): the per-tag scrape    *)
(* pipeline (normalise, filter, sort, truncate), the incremental merge     *)
(* into the monthly store, the driver loop of main() with its two failure  *)
(* paths, the auto-scroll loop, and the engagement extraction of one       *)
(* article container (findMetrics).                                        *)
(*                                                                         *)
(* Representation.  A nullable number (claps, comments) is Null == <<>>    *)
(* or <<n>>.  A URL is the tuple <<origin+path, search, hash>>; the null   *)
(* URL is <<>> and a string that `new URL` rejects is a 1-tuple.  A title  *)
(* is a sequence of characters; the extractor only yields a non-empty      *)
(* trimmed title or null (index.ts:324), and null is written <<>>, which   *)
(* is also the value of `title || ""`.                                     *)
(***************************************************************************)
EXTENDS Integers, Sequences, FiniteSets, TLC

VARIABLES
    mode,           \* which part of the program this behaviour exercises
    \* ---- mergeArticles applied to drawn inputs
    mExisting,      \* the tag's collection before the merge
    mFresh,         \* newArticles
    mFreshB,        \* a second fresh batch (two merges against one pass)
    mOut,           \* MergeResult of the last call
    mOutAB,         \* collection after merging mFresh and then mFreshB
    mOutUnion,      \* collection after merging mFresh \o mFreshB in one pass
    mPhase,
    \* ---- parseArgs and the filter chain of scrapeTag applied to drawn inputs
    sArgs,          \* the command line: values of --limit, --minClaps, --include, --exclude
    sOpts,          \* ParsedArgs
    sItems,         \* RawArticle[] returned by extractFromPage
    sKept,          \* the array after the four filters
    sOut,           \* the array scrapeTag returns
    sPhase,
    \* ---- main(): the driver loop over the tags, across process runs
    pc,             \* "start", "scraping", "writing", "closing", "exited", "fatal"
    tags,           \* ParsedArgs.tags of this run
    options,        \* the scrape options of this run
    idx,            \* position of the for..of loop in tags
    existingData,   \* the in-memory store: tag -> Article[]
    file,           \* the store in the month's JSON file
    fileValid,      \* FALSE when the file is missing or does not parse
    articles,       \* what scrapeTag returned for the current tag
    counts,         \* newCount, updatedCount of the last merge
    clock,          \* capture time: the number of pages extracted so far
    log,            \* per tag of this run: what the scrape and the write did
    \* ---- autoScroll
    scPc,           \* "top", "recheck", "done"
    scMax,          \* maxScrolls
    scI,            \* the loop counter i
    scPrev,         \* previousHeight
    scSeen,         \* previousHeight as the current iteration compared against
    scNew,          \* newHeight of the current iteration (0: not read)
    scFinal,        \* finalHeight of the current iteration (0: not read)
    scScrolls,      \* number of window.scrollTo calls made
    scBroke,        \* the loop was left by `break`
    \* ---- findMetrics
    fmEl,           \* articleEl: the elements of the container in document order
    fmPc,           \* "clapElements", "svgs", "buttons", "textNodes", "return"
    fmI,            \* elements of the current loop already visited
    fmClaps,        \* claps
    fmComments,     \* comments
    fmAssigned      \* the assignments made so far, each with the value it replaced

mergeVars == <<mExisting, mFresh, mFreshB, mOut, mOutAB, mOutUnion, mPhase>>
scrapeVars == <<sArgs, sOpts, sItems, sKept, sOut, sPhase>>
mainVars == <<pc, tags, options, idx, existingData, file, fileValid, articles, counts, clock, log>>
scrollVars == <<scPc, scMax, scI, scPrev, scSeen, scNew, scFinal, scScrolls, scBroke>>
metricsVars == <<fmEl, fmPc, fmI, fmClaps, fmComments, fmAssigned>>
vars == <<mode, mergeVars, scrapeVars, mainVars, scrollVars, metricsVars>>

\* The parts a behaviour does not exercise stay as they are.
MergeIdle ==
    /\ mExisting = <<>> /\ mFresh = <<>> /\ mFreshB = <<>>
    /\ mOut = <<>> /\ mOutAB = <<>> /\ mOutUnion = <<>> /\ mPhase = "idle"

ScrapeIdle ==
    /\ sArgs = <<>> /\ sOpts = <<>> /\ sItems = <<>>
    /\ sKept = <<>> /\ sOut = <<>> /\ sPhase = "idle"

MainIdle ==
    /\ pc = "idle" /\ tags = <<>> /\ options = <<>> /\ idx = 0
    /\ existingData = <<>> /\ file = <<>> /\ fileValid = FALSE
    /\ articles = <<>> /\ counts = <<>> /\ clock = 0 /\ log = <<>>

ScrollIdle ==
    /\ scPc = "idle" /\ scMax = 0 /\ scI = 0 /\ scPrev = 0 /\ scSeen = 0
    /\ scNew = 0 /\ scFinal = 0 /\ scScrolls = 0 /\ scBroke = FALSE

MetricsIdle ==
    /\ fmEl = <<>> /\ fmPc = "idle" /\ fmI = 0
    /\ fmClaps = <<>> /\ fmComments = <<>> /\ fmAssigned = <<>>

----------------------------------------------------------------------------
(* Bounds *)
MaxExisting == 2      \* records in a drawn existing collection
MaxFresh == 2         \* records in a drawn fresh batch
MaxItems == 2         \* candidates extractFromPage returns for one page
MaxScrapes == 2       \* pages extracted in one behaviour of the driver
MaxHeight == 3        \* document.body.scrollHeight is observed in 1..MaxHeight
MaxElements == 2      \* elements of one article container

----------------------------------------------------------------------------
(* Values *)
Null == <<>>
Num(n) == <<n>>
OrZero(c) == IF c = Null THEN 0 ELSE c[1]          \* `c ?? 0`

NullUrl == <<>>
Url(base, search, hash) == <<base, search, hash>>

Max(a, b) == IF a >= b THEN a ELSE b
Min(a, b) == IF a <= b THEN a ELSE b

SeqsUpTo(S, n) == UNION {[1..k -> S] : k \in 0..n}

Range(s) == {s[i] : i \in 1..Len(s)}
UrlSet(s) == {s[i].url : i \in 1..Len(s)}
Front(s) == SubSeq(s, 1, Len(s) - 1)
Last(s) == s[Len(s)]

Article(u, ti, at, cl, co, tg) ==
    [url |-> u, title |-> ti, createdAt |-> at, claps |-> cl, comments |-> co, tag |-> tg]

----------------------------------------------------------------------------
(* Array.prototype.sort with the comparator (b.claps ?? 0) - (a.claps ?? 0): *)
(* a stable sort (Node >= 11), by claps descending, null as 0.               *)
RECURSIVE InsertByClaps(_, _)
InsertByClaps(x, s) ==
    IF s = <<>> THEN <<x>>
    ELSE IF OrZero(Last(s).claps) >= OrZero(x.claps) THEN Append(s, x)
    ELSE Append(InsertByClaps(x, Front(s)), Last(s))

\* a sort that leaves the array as it is
SortByClaps_Identity(s) == s

RECURSIVE SortByClaps(_)
SortByClaps(s) ==
    IF s = <<>> THEN <<>> ELSE InsertByClaps(Last(s), SortByClaps(Front(s)))

----------------------------------------------------------------------------
(* mergeArticles *)

\* existing[tag] || []
TagArticles(store, tag) == IF tag \in DOMAIN store THEN store[tag] ELSE <<>>

HasUrl(s, u) == \E i \in 1..Len(s) : s[i].url = u

\* new Map(existingArticles.map(a => [a.url, a])): a later entry replaces an
\* earlier one with the same key, so the map holds the last record per URL.
MapIndex(s, u) == CHOOSE i \in 1..Len(s) : s[i].url = u /\ \A j \in (i+1)..Len(s) : s[j].url # u

LastWithUrl(s, u) == s[MapIndex(s, u)]

\* The forEach over newArticles writes claps/comments of the mapped existing
\* record in place; after the loop the record holds the last write.
UpdatedInPlace(existingArticles, newArticles) ==
    [i \in 1..Len(existingArticles) |->
        LET e == existingArticles[i] IN
        IF HasUrl(newArticles, e.url) /\ MapIndex(existingArticles, e.url) = i
        THEN [e EXCEPT !.claps = LastWithUrl(newArticles, e.url).claps,
                       !.comments = LastWithUrl(newArticles, e.url).comments]
        ELSE e]

CountNew(existingArticles, newArticles) ==
    Cardinality({i \in 1..Len(newArticles) : ~HasUrl(existingArticles, newArticles[i].url)})

CountUpdated(existingArticles, newArticles) ==
    Cardinality({i \in 1..Len(newArticles) : HasUrl(existingArticles, newArticles[i].url)})

\* a merge that carries nothing over
CarriedOver_None(existingArticles, newArticles) == <<>>

\* existingArticles.forEach(e => { if (!newArticles.some(n => n.url === e.url)) merged.push(e) })
CarriedOver(existingArticles, newArticles) ==
    SelectSeq(existingArticles, LAMBDA e : ~HasUrl(newArticles, e.url))

\* a merge without the final sort
mergeArticles_Unsorted(existing, newArticles, tag) ==
    LET existingArticles == TagArticles(existing, tag)
        mutated == UpdatedInPlace(existingArticles, newArticles)
    IN  [merged |-> newArticles \o CarriedOver(mutated, newArticles),
         newCount |-> CountNew(existingArticles, newArticles),
         updatedCount |-> CountUpdated(existingArticles, newArticles)]

mergeArticles(existing, newArticles, tag) ==
    LET existingArticles == TagArticles(existing, tag)
        mutated == UpdatedInPlace(existingArticles, newArticles)
    IN  [merged |-> SortByClaps(newArticles \o CarriedOver(mutated, newArticles)),
         newCount |-> CountNew(existingArticles, newArticles),
         updatedCount |-> CountUpdated(existingArticles, newArticles)]

----------------------------------------------------------------------------
(* parseArgs: the numeric options.  An option is absent, given without a    *)
(* value (args[++i] is undefined), given a string Number() maps to NaN, or  *)
(* given an integer.                                                        *)
DefaultScrolls == 6
DefaultLimit == 30
DefaultMinClaps == 0

ArgAbsent == [kind |-> "absent", v |-> 0]
ArgNoValue == [kind |-> "novalue", v |-> 0]
ArgNaN == [kind |-> "nan", v |-> 0]
ArgInt(n) == [kind |-> "int", v |-> n]

\* Number(args[++i] ?? dflt) || dflt: NaN and 0 are falsy and give the default;
\* every other number, a negative one too, is taken as it is.
NumberOrDefault(arg, dflt) ==
    IF arg.kind = "int" /\ arg.v # 0 THEN arg.v ELSE dflt

parseArgs(args) ==
    [minClaps |-> NumberOrDefault(args.minClaps, DefaultMinClaps),
     limit |-> NumberOrDefault(args.limit, DefaultLimit),
     include |-> args.include,
     exclude |-> args.exclude]

----------------------------------------------------------------------------
(* Strings *)
LowerChar(c) ==
    CASE c = "A" -> "a" [] c = "I" -> "i" [] c = "S" -> "s" [] c = "C" -> "c" [] OTHER -> c

toLowerCase(s) == [i \in 1..Len(s) |-> LowerChar(s[i])]

\* String.prototype.includes
Includes(hay, needle) ==
    \E start \in 1..(Len(hay) - Len(needle) + 1) :
        SubSeq(hay, start, start + Len(needle) - 1) = needle

includesAny(text, kws) ==
    IF Len(kws) = 0 THEN TRUE
    ELSE LET low == toLowerCase(text)
         IN  \E i \in 1..Len(kws) : Includes(low, toLowerCase(kws[i]))

\* an exclude filter that compares the keywords as they were typed
excludesAll_CaseSensitive(text, kws) ==
    IF Len(kws) = 0 THEN TRUE
    ELSE LET low == toLowerCase(text)
         IN  ~\E i \in 1..Len(kws) : Includes(low, kws[i])

excludesAll(text, kws) ==
    IF Len(kws) = 0 THEN TRUE
    ELSE LET low == toLowerCase(text)
         IN  ~\E i \in 1..Len(kws) : Includes(low, toLowerCase(kws[i]))

----------------------------------------------------------------------------
(* scrapeTag: the chain applied to the extracted items *)

\* new URL(absUrl) throws on a string that is no URL; search and hash are cleared.
normalizeArticleUrl(absUrl) ==
    IF absUrl = NullUrl THEN NullUrl
    ELSE IF Len(absUrl) # 3 THEN NullUrl
    ELSE Url(absUrl[1], "", "")

Normalized(items, tag, now) ==
    [i \in 1..Len(items) |->
        Article(normalizeArticleUrl(items[i].url), items[i].title, now,
                items[i].claps, items[i].comments, tag)]

PassesMinClaps(x, minClaps) == IF x.claps = Null THEN TRUE ELSE x.claps[1] >= minClaps

Filtered(items, opts, tag, now) ==
    LET a == SelectSeq(Normalized(items, tag, now), LAMBDA x : x.url # NullUrl)
        b == SelectSeq(a, LAMBDA x : includesAny(x.title, opts.include))
        c == SelectSeq(b, LAMBDA x : excludesAll(x.title, opts.exclude))
    IN  SelectSeq(c, LAMBDA x : PassesMinClaps(x, opts.minClaps))

\* Array.prototype.slice(0, end) for an integer end: a negative end counts
\* from the end of the array.
Slice0(s, end) ==
    LET final == IF end < 0 THEN Max(Len(s) + end, 0) ELSE Min(end, Len(s))
    IN  SubSeq(s, 1, final)

scrapeTag(items, opts, tag, now) ==
    Slice0(SortByClaps(Filtered(items, opts, tag, now)), opts.limit)

----------------------------------------------------------------------------
(* Input domains *)
U1 == Url("https://medium.com/p/a1", "", "")
U2 == Url("https://medium.com/p/b2", "", "")
U3 == Url("https://medium.com/p/c3", "", "")

T1 == <<"A", "i">>
T2 == <<"s", "c">>

ClapsVals == {Null, Num(1), Num(2)}
CommentVals == {Null, Num(3)}

Articles(urls, titles, claps, comments, at, tg) ==
    {Article(u, ti, at, cl, co, tg) : u \in urls, ti \in titles, cl \in claps, co \in comments}

----------------------------------------------------------------------------
(* mergeArticles on drawn inputs: an existing collection as a run leaves   *)
(* it (sorted by the previous merge) and one fresh batch.                  *)
MergeTag == "ai"

ExistingInputs ==
    {SortByClaps(s) : s \in SeqsUpTo(Articles({U1, U2}, {T1, T2}, ClapsVals, CommentVals, 0, MergeTag), MaxExisting)}

FreshInputs ==
    SeqsUpTo(Articles({U1, U2}, {T1, T2}, ClapsVals, CommentVals, 1, MergeTag), MaxFresh)

MergeInit ==
    /\ ScrapeIdle /\ MainIdle /\ ScrollIdle /\ MetricsIdle
    /\ mode = "merge"
    /\ mExisting \in ExistingInputs
    /\ mFresh = <<>> /\ mFreshB = <<>>
    /\ mOut = <<>> /\ mOutAB = <<>> /\ mOutUnion = <<>>
    /\ mPhase = "drawn"

MergeCall ==
    /\ mode = "merge" /\ mPhase = "drawn"
    /\ \E fresh \in FreshInputs :
          /\ mFresh' = fresh
          /\ mOut' = mergeArticles([t \in {MergeTag} |-> mExisting], fresh, MergeTag)
    /\ mPhase' = "merged"
    /\ UNCHANGED <<mode, metricsVars, mExisting, mFreshB, mOutAB, mOutUnion, scrapeVars, mainVars, scrollVars>>

MergeNext == MergeCall

SpecMerge == MergeInit /\ [][MergeNext]_vars

----------------------------------------------------------------------------
(* Two runs against one: an existing collection and two fresh batches whose *)
(* URL sets are disjoint from each other and from the existing collection.  *)
(* The first run merges batch A, the second merges batch B into what the    *)
(* first left; the single pass merges A followed by B into the original.    *)
AssocUrls == {U1, U2, U3}

AssocArticles(urls, at) == Articles(urls, {T1}, ClapsVals, {Null}, at, MergeTag)

\* who shows each URL: the existing collection, batch A or batch B
AssocOwners == [AssocUrls -> {"existing", "A", "B"}]

OwnedBy(owner, who) == {u \in AssocUrls : owner[u] = who}

AssocInit ==
    /\ ScrapeIdle /\ MainIdle /\ ScrollIdle /\ MetricsIdle
    /\ mode = "assoc"
    /\ \E owner \in AssocOwners :
          /\ mExisting \in {SortByClaps(s) :
                              s \in SeqsUpTo(AssocArticles(OwnedBy(owner, "existing"), 0), MaxExisting)}
          /\ mFresh \in SeqsUpTo(AssocArticles(OwnedBy(owner, "A"), 1), MaxFresh)
          /\ mFreshB \in SeqsUpTo(AssocArticles(OwnedBy(owner, "B"), 2), MaxFresh)
    /\ mOut = <<>> /\ mOutAB = <<>> /\ mOutUnion = <<>>
    /\ mPhase = "drawn"

MergeFirst ==
    /\ mode = "assoc" /\ mPhase = "drawn"
    /\ mOut' = mergeArticles([t \in {MergeTag} |-> mExisting], mFresh, MergeTag)
    /\ mPhase' = "first"
    /\ UNCHANGED <<mode, metricsVars, mExisting, mFresh, mFreshB, mOutAB, mOutUnion, scrapeVars, mainVars, scrollVars>>

MergeSecond ==
    /\ mode = "assoc" /\ mPhase = "first"
    /\ mOutAB' = mergeArticles([t \in {MergeTag} |-> mOut.merged], mFreshB, MergeTag).merged
    /\ mPhase' = "second"
    /\ UNCHANGED <<mode, metricsVars, mExisting, mFresh, mFreshB, mOut, mOutUnion, scrapeVars, mainVars, scrollVars>>

MergeOnePass ==
    /\ mode = "assoc" /\ mPhase = "second"
    /\ mOutUnion' = mergeArticles([t \in {MergeTag} |-> mExisting], mFresh \o mFreshB, MergeTag).merged
    /\ mPhase' = "done"
    /\ UNCHANGED <<mode, metricsVars, mExisting, mFresh, mFreshB, mOut, mOutAB, scrapeVars, mainVars, scrollVars>>

AssocNext == MergeFirst \/ MergeSecond \/ MergeOnePass

SpecAssoc == AssocInit /\ [][AssocNext]_vars

----------------------------------------------------------------------------
\* C1: for every URL that occurs both in an existing and in a fresh record, the
\* record with that URL in the merged collection has the fresh record's claps
\* and comments and the existing record's title and createdAt.
C1_MergedKeepsExistingTitle ==
    mPhase = "merged" =>
        \A e \in Range(mExisting), f \in Range(mFresh), m \in Range(mOut.merged) :
            (e.url = f.url /\ m.url = e.url) =>
                /\ m.claps = f.claps /\ m.comments = f.comments
                /\ m.title = e.title /\ m.createdAt = e.createdAt

\* C9: newCount is the number of URLs of the fresh batch that are absent from
\* the existing collection, updatedCount the number that are present in it.
C9_CountsAreUrlCounts ==
    mPhase = "merged" =>
        /\ mOut.newCount = Cardinality(UrlSet(mFresh) \ UrlSet(mExisting))
        /\ mOut.updatedCount = Cardinality(UrlSet(mFresh) \cap UrlSet(mExisting))

----------------------------------------------------------------------------
(* parseArgs and scrapeTag on drawn inputs *)
U1q == Url("https://medium.com/p/a1", "?source=tag", "#top")
BadUrl == <<"not a url">>

T3 == <<"A", "i", "s", "c">>
KwAi == <<"a", "i">>
KwSc == <<"S", "c">>

RawArticle(u, ti, cl, co) == [url |-> u, title |-> ti, claps |-> cl, comments |-> co]

RawItems(urls, titles, claps, comments) ==
    {RawArticle(u, ti, cl, co) : u \in urls, ti \in titles, cl \in claps, co \in comments}

ScrapeArgs ==
    [limit : {ArgAbsent, ArgNaN, ArgInt(0), ArgInt(1), ArgInt(-1)},
     minClaps : {ArgAbsent, ArgNoValue, ArgInt(2)},
     include : {<<>>, <<KwAi>>, <<KwSc, KwAi>>},
     exclude : {<<>>, <<KwSc>>}]

ScrapeInit ==
    /\ MergeIdle /\ MainIdle /\ ScrollIdle /\ MetricsIdle
    /\ mode = "scrape"
    /\ sArgs \in ScrapeArgs
    /\ sItems \in SeqsUpTo(RawItems({U1q, BadUrl}, {<<>>, T1, T2, T3}, ClapsVals, {Null}), MaxItems)
    /\ sOpts = <<>> /\ sKept = <<>> /\ sOut = <<>>
    /\ sPhase = "args"

ParseArgs ==
    /\ mode = "scrape" /\ sPhase = "args"
    /\ sOpts' = parseArgs(sArgs)
    /\ sPhase' = "parsed"
    /\ UNCHANGED <<mode, metricsVars, sArgs, sItems, sKept, sOut, mergeVars, mainVars, scrollVars>>

ScrapePage ==
    /\ mode = "scrape" /\ sPhase = "parsed"
    /\ sKept' = Filtered(sItems, sOpts, MergeTag, 1)
    /\ sOut' = scrapeTag(sItems, sOpts, MergeTag, 1)
    /\ sPhase' = "scraped"
    /\ UNCHANGED <<mode, metricsVars, sArgs, sOpts, sItems, mergeVars, mainVars, scrollVars>>

ScrapeNext == ParseArgs \/ ScrapePage

SpecScrape == ScrapeInit /\ [][ScrapeNext]_vars

----------------------------------------------------------------------------
(* main(): parseArgs, puppeteer.launch, loadExistingData, then for each tag *)
(* scrapeTag, mergeArticles, existingData[tag] = merged and fs.writeFile,   *)
(* all inside one try/catch per tag.  The process is run again and again    *)
(* against the same file.                                                   *)
EmptyStore == [t \in {} |-> <<>>]

\* existingData[tag] = merged
StoreSet(store, tag, coll) ==
    [t \in DOMAIN store \cup {tag} |-> IF t = tag THEN coll ELSE store[t]]

\* loadExistingData: a missing or unparsable file reads as {}
loadExistingData(f, valid) == IF valid THEN f ELSE EmptyStore

TagLists == {<<"ai">>, <<"ai", "web">>}

MainArgs ==
    [limit : {ArgAbsent, ArgInt(1)}, minClaps : {ArgAbsent}, include : {<<>>}, exclude : {<<>>}]

\* The cards a tag page shows: two cards of one article (one link with a
\* query string), and a card without counters.
PageItems ==
    {RawArticle(U1q, T1, Num(1), Null), RawArticle(U1, T2, Num(2), Num(3)),
     RawArticle(U2, T1, Null, Null)}

\* Where the loop goes after the body for tags[i] ended, normally or in the
\* catch of lines 483-485: the next tag, or browser.close() after the last.
NextInLoop(i, tgs) == IF i < Len(tgs) THEN "scraping" ELSE "closing"

\* a loop body without the catch: the rejection leaves main()
CatchInLoop_Rethrows(i, tgs) == "fatal"

CatchInLoop(i, tgs) == NextInLoop(i, tgs)

LogEntry(tg, sc, wr) == [tag |-> tg, scrape |-> sc, write |-> wr]

SetLastWrite(lg, wr) == [lg EXCEPT ![Len(lg)].write = wr]

MainInit ==
    /\ MergeIdle /\ ScrapeIdle /\ ScrollIdle /\ MetricsIdle
    /\ mode = "main"
    /\ pc = "start"
    /\ tags \in TagLists
    /\ \E a \in MainArgs : options = parseArgs(a)
    /\ idx = 0
    /\ existingData = EmptyStore
    /\ file = EmptyStore /\ fileValid = FALSE
    /\ articles = <<>> /\ counts = <<>> /\ clock = 0 /\ log = <<>>

\* puppeteer.launch resolves; the file is read once
Launch ==
    /\ mode = "main" /\ pc = "start"
    /\ existingData' = loadExistingData(file, fileValid)
    /\ idx' = 1
    /\ pc' = "scraping"
    /\ UNCHANGED <<mode, metricsVars, tags, options, file, fileValid, articles, counts, clock, log,
                   mergeVars, scrapeVars, scrollVars>>

\* puppeteer.launch rejects: main() rejects and main().catch exits with 1
LaunchFails ==
    /\ mode = "main" /\ pc = "start"
    /\ pc' = "fatal"
    /\ UNCHANGED <<mode, metricsVars, tags, options, idx, existingData, file, fileValid, articles, counts,
                   clock, log, mergeVars, scrapeVars, scrollVars>>

\* scrapeTag returned `fresh`; merge, assign and log run before the write is awaited
Merged(fresh, outcome) ==
    LET tag == tags[idx]
        r == mergeArticles(existingData, fresh, tag)
    IN  /\ articles' = fresh
        /\ existingData' = StoreSet(existingData, tag, r.merged)
        /\ counts' = [newCount |-> r.newCount, updatedCount |-> r.updatedCount]
        /\ log' = Append(log, LogEntry(tag, outcome, "pending"))
        /\ pc' = "writing"

\* the page rendered and extractFromPage returned items
TagScraped ==
    /\ mode = "main" /\ pc = "scraping"
    /\ clock < MaxScrapes
    /\ \E items \in SeqsUpTo(PageItems, MaxItems) :
          Merged(scrapeTag(items, options, tags[idx], clock + 1), "ok")
    /\ clock' = clock + 1
    /\ UNCHANGED <<mode, metricsVars, tags, options, idx, file, fileValid, mergeVars, scrapeVars, scrollVars>>

\* page.goto (or a later step inside the try of scrapeTag) throws: return []
TagRenderFails ==
    /\ mode = "main" /\ pc = "scraping"
    /\ Merged(<<>>, "renderfail")
    /\ UNCHANGED <<mode, metricsVars, tags, options, idx, file, fileValid, clock, mergeVars, scrapeVars,
                   scrollVars>>

\* browser.newPage() or a page.close() rejects outside the try of scrapeTag:
\* the catch of main logs it; nothing is merged or written for this tag
TagThrows ==
    /\ mode = "main" /\ pc = "scraping"
    /\ log' = Append(log, LogEntry(tags[idx], "threw", "none"))
    /\ idx' = idx + 1
    /\ pc' = CatchInLoop(idx, tags)
    /\ UNCHANGED <<mode, metricsVars, tags, options, existingData, file, fileValid, articles, counts, clock,
                   mergeVars, scrapeVars, scrollVars>>

\* fs.writeFile resolves: the file holds the whole in-memory store
WriteOk ==
    /\ mode = "main" /\ pc = "writing"
    /\ file' = existingData /\ fileValid' = TRUE
    /\ log' = SetLastWrite(log, "ok")
    /\ idx' = idx + 1
    /\ pc' = NextInLoop(idx, tags)
    /\ UNCHANGED <<mode, metricsVars, tags, options, existingData, articles, counts, clock,
                   mergeVars, scrapeVars, scrollVars>>

\* fs.writeFile rejects inside the try: the catch of main logs it.  The file
\* is as it was (it could not be opened) or truncated (the write broke off).
WriteFails ==
    /\ mode = "main" /\ pc = "writing"
    /\ \/ UNCHANGED <<file, fileValid>>
       \/ file' = EmptyStore /\ fileValid' = FALSE
    /\ log' = SetLastWrite(log, "failed")
    /\ idx' = idx + 1
    /\ pc' = CatchInLoop(idx, tags)
    /\ UNCHANGED <<mode, metricsVars, tags, options, existingData, articles, counts, clock,
                   mergeVars, scrapeVars, scrollVars>>

\* browser.close() and the summary
CloseBrowser ==
    /\ mode = "main" /\ pc = "closing"
    /\ pc' = "exited"
    /\ UNCHANGED <<mode, metricsVars, tags, options, idx, existingData, file, fileValid, articles, counts,
                   clock, log, mergeVars, scrapeVars, scrollVars>>

\* browser.close() rejects after the loop: main() rejects
CloseFails ==
    /\ mode = "main" /\ pc = "closing"
    /\ pc' = "fatal"
    /\ UNCHANGED <<mode, metricsVars, tags, options, idx, existingData, file, fileValid, articles, counts,
                   clock, log, mergeVars, scrapeVars, scrollVars>>

\* the program is started again, with any command line
Restart ==
    /\ mode = "main" /\ pc \in {"exited", "fatal"}
    /\ pc' = "start"
    /\ tags' \in TagLists
    /\ \E a \in MainArgs : options' = parseArgs(a)
    /\ idx' = 0 /\ existingData' = EmptyStore
    /\ articles' = <<>> /\ counts' = <<>> /\ log' = <<>>
    /\ UNCHANGED <<mode, metricsVars, file, fileValid, clock, mergeVars, scrapeVars, scrollVars>>

Next ==
    \/ Launch \/ LaunchFails
    \/ TagScraped \/ TagRenderFails \/ TagThrows
    \/ WriteOk \/ WriteFails
    \/ CloseBrowser \/ CloseFails \/ Restart

Init == MainInit

Spec == Init /\ [][Next]_vars

----------------------------------------------------------------------------
(* autoScroll(page, scrolls): each await of page.evaluate returns a height  *)
(* the page chooses; the timers in between always fire.                     *)
Heights == 1..MaxHeight

ScrollArgs == {ArgAbsent, ArgInt(1), ArgInt(2), ArgInt(-1)}

\* a break on "did not grow"
BreakNow_NoGrowth(finalHeight, previousHeight) == finalHeight <= previousHeight

\* if (finalHeight === previousHeight) break
BreakNow(finalHeight, previousHeight) == finalHeight = previousHeight

ScrollInit ==
    /\ MergeIdle /\ ScrapeIdle /\ MainIdle /\ MetricsIdle
    /\ mode = "scroll"
    /\ scPc = "top"
    /\ \E a \in ScrollArgs : scMax = NumberOrDefault(a, DefaultScrolls)
    /\ scI = 0
    /\ scPrev \in Heights
    /\ scSeen = 0 /\ scNew = 0 /\ scFinal = 0
    /\ scScrolls = 0 /\ scBroke = FALSE

\* one pass of the loop body up to the comparison of newHeight
ScrollAndCheck ==
    /\ mode = "scroll" /\ scPc = "top" /\ scI < scMax
    /\ scScrolls' = scScrolls + 1
    /\ scSeen' = scPrev /\ scFinal' = 0
    /\ \E newHeight \in Heights :
          /\ scNew' = newHeight
          /\ IF newHeight = scPrev
             THEN scPc' = "recheck" /\ UNCHANGED <<scPrev, scI>>
             ELSE scPrev' = newHeight /\ scI' = scI + 1 /\ scPc' = "top"
    /\ UNCHANGED <<mode, metricsVars, scMax, scBroke, mergeVars, scrapeVars, mainVars>>

\* after sleep(1000): the second read of the height
Recheck ==
    /\ mode = "scroll" /\ scPc = "recheck"
    /\ \E finalHeight \in Heights :
          /\ scFinal' = finalHeight
          /\ IF BreakNow(finalHeight, scPrev)
             THEN scBroke' = TRUE /\ scPc' = "done" /\ UNCHANGED <<scPrev, scI>>
             ELSE scPrev' = finalHeight /\ scI' = scI + 1 /\ scPc' = "top" /\ UNCHANGED scBroke
    /\ UNCHANGED <<mode, metricsVars, scMax, scSeen, scNew, scScrolls, mergeVars, scrapeVars, mainVars>>

\* i < maxScrolls is false
LoopEnds ==
    /\ mode = "scroll" /\ scPc = "top" /\ ~(scI < scMax)
    /\ scPc' = "done"
    /\ UNCHANGED <<mode, metricsVars, scMax, scI, scPrev, scSeen, scNew, scFinal, scScrolls, scBroke,
                   mergeVars, scrapeVars, mainVars>>

ScrollNext == ScrollAndCheck \/ Recheck \/ LoopEnds

SpecScroll == ScrollInit /\ [][ScrollNext]_vars /\ WF_vars(ScrollNext)

----------------------------------------------------------------------------
(* findMetrics(articleEl): the engagement counts of one container.  The     *)
(* container is a sequence of elements in document order; an element is a   *)
(* button or a span with an aria-label, possibly an svg child, and one text *)
(* node.  A visible text is a count in tenths with its suffix ("1.5k" is    *)
(* 15 tenths, suffix "k"), NoCount for a text without a digit, and `rest`   *)
(* says that other characters (none of them a digit, ".", "k" or "m")       *)
(* surround the count.                                                      *)
NoCount == Null
Text(tenths, suf, rest) == [tenths |-> tenths, suf |-> suf, rest |-> rest]
NoText == Text(NoCount, "", FALSE)

\* Math.round of a non-negative number given in tenths
Round(tenths) == (tenths + 5) \div 10

toNum(s) ==
    IF s.tenths = NoCount THEN Null
    ELSE IF s.suf = "k" THEN Num(Round(s.tenths[1] * 1000))
    ELSE IF s.suf = "m" THEN Num(Round(s.tenths[1] * 1000000))
    ELSE Num(Round(s.tenths[1]))

\* /^\d+(?:\.\d+)?[kKmM]?$/ on the trimmed text
IsCountToken(s) == s.tenths # NoCount /\ ~s.rest

\* /^\d+$/ on the trimmed text
IsDigits(s) == IsCountToken(s) /\ s.suf = "" /\ s.tenths[1] % 10 = 0

ClapWord == <<"c", "l", "a", "p">>
CommentWord == <<"c", "o", "m", "m", "e", "n", "t">>
ResponseWord == <<"r", "e", "s", "p", "o", "n", "s", "e">>

\* an aria-label: its words and the first count written in it
Label(words, count) == [words |-> words, count |-> count]

Labels ==
    {Label(w, c) : w \in {<<>>, ClapWord, <<"C", "l", "a", "p">>, ResponseWord},
                   c \in {NoText, Text(Num(30), "", FALSE)}}

Texts == {NoText, Text(Num(70), "", FALSE), Text(Num(15), "k", FALSE), Text(Num(70), "", TRUE)}

\* svg: "none", "plain", or "clap" when the svg's innerHTML contains "clap"
Elements ==
    [tag : {"button", "span"}, label : Labels, svg : {"none", "plain", "clap"}, text : Texts]

Containers == SeqsUpTo(Elements, MaxElements)

\* querySelectorAll('[aria-label*="clap"]'): the attribute value as written
clapElements(articleEl) ==
    SelectSeq(articleEl, LAMBDA el : Includes(el.label.words, ClapWord))

svgs(articleEl) == SelectSeq(articleEl, LAMBDA el : el.svg # "none")

buttons(articleEl) == SelectSeq(articleEl, LAMBDA el : el.tag = "button")

\* the text nodes the TreeWalker keeps
textNodes(articleEl) ==
    LET kept == SelectSeq(articleEl, LAMBDA el : IsCountToken(el.text))
    IN  [i \in 1..Len(kept) |-> kept[i].text]

IncludesClap(label) == Includes(toLowerCase(label.words), ClapWord)

IncludesCommentOrResponse(label) ==
    \/ Includes(toLowerCase(label.words), CommentWord)
    \/ Includes(toLowerCase(label.words), ResponseWord)

\* an assignment statement executed: the metric and the value it held
Assigned(metric, held) == <<metric, held>>

MetricsInit ==
    /\ MergeIdle /\ ScrapeIdle /\ MainIdle /\ ScrollIdle
    /\ mode = "metrics"
    /\ fmEl \in Containers
    /\ fmPc = "clapElements" /\ fmI = 0
    /\ fmClaps = Null /\ fmComments = Null
    /\ fmAssigned = <<>>

\* one pass of `for (const el of clapElements)`
ClapElementStep ==
    /\ mode = "metrics" /\ fmPc = "clapElements" /\ fmI < Len(clapElements(fmEl))
    /\ LET el == clapElements(fmEl)[fmI + 1]
       IN  IF IncludesClap(el.label) /\ el.label.count.tenths # NoCount
           THEN /\ fmClaps' = toNum(el.label.count)
                /\ fmAssigned' = Append(fmAssigned, Assigned("claps", fmClaps))
                /\ fmPc' = IF fmClaps' = Null THEN "svgs" ELSE "buttons"
                /\ fmI' = 0
           ELSE /\ fmI' = fmI + 1
                /\ UNCHANGED <<fmPc, fmClaps, fmAssigned>>
    /\ UNCHANGED <<mode, fmEl, fmComments, mergeVars, scrapeVars, mainVars, scrollVars>>

\* the loop over clapElements ends without a break; if (claps === null)
ClapElementsEnd ==
    /\ mode = "metrics" /\ fmPc = "clapElements" /\ fmI = Len(clapElements(fmEl))
    /\ fmPc' = IF fmClaps = Null THEN "svgs" ELSE "buttons"
    /\ fmI' = 0
    /\ UNCHANGED <<mode, fmEl, fmClaps, fmComments, fmAssigned,
                   mergeVars, scrapeVars, mainVars, scrollVars>>

\* the branch one pass of `for (const svg of svgs)` takes once the text is a count
SvgBranch(svg, claps, comments) ==
    IF IncludesClap(svg.label) \/ svg.svg = "clap" THEN "claps"
    ELSE IF IncludesCommentOrResponse(svg.label) THEN "comments"
    ELSE IF claps = Null THEN "claps"
    ELSE IF comments = Null THEN "comments"
    ELSE "none"

\* one pass of `for (const svg of svgs)`; the element is the svg's parent
SvgStep ==
    /\ mode = "metrics" /\ fmPc = "svgs" /\ fmI < Len(svgs(fmEl))
    /\ LET parent == svgs(fmEl)[fmI + 1]
           branch == IF IsCountToken(parent.text) /\ toNum(parent.text) # Null
                     THEN SvgBranch(parent, fmClaps, fmComments)
                     ELSE "none"
       IN  /\ fmClaps' = IF branch = "claps" THEN toNum(parent.text) ELSE fmClaps
           /\ fmComments' = IF branch = "comments" THEN toNum(parent.text) ELSE fmComments
           /\ fmAssigned' =
                 IF branch = "claps" THEN Append(fmAssigned, Assigned("claps", fmClaps))
                 ELSE IF branch = "comments"
                      THEN Append(fmAssigned, Assigned("comments", fmComments))
                 ELSE fmAssigned
    /\ fmI' = fmI + 1
    /\ UNCHANGED <<mode, fmEl, fmPc, mergeVars, scrapeVars, mainVars, scrollVars>>

SvgsEnd ==
    /\ mode = "metrics" /\ fmPc = "svgs" /\ fmI = Len(svgs(fmEl))
    /\ fmPc' = "buttons"
    /\ fmI' = 0
    /\ UNCHANGED <<mode, fmEl, fmClaps, fmComments, fmAssigned,
                   mergeVars, scrapeVars, mainVars, scrollVars>>

\* one pass of `for (const btn of buttons)`: the two ifs in turn
ButtonStep ==
    /\ mode = "metrics" /\ fmPc = "buttons" /\ fmI < Len(buttons(fmEl))
    /\ LET btn == buttons(fmEl)[fmI + 1]
           num == toNum(btn.text)
           setClaps ==
               /\ (IncludesClap(btn.label) \/ IsDigits(btn.text)) /\ fmClaps = Null
               /\ num # Null
           setComments ==
               /\ IncludesCommentOrResponse(btn.label) /\ fmComments = Null
               /\ num # Null
           afterClaps ==
               IF setClaps THEN Append(fmAssigned, Assigned("claps", fmClaps))
               ELSE fmAssigned
       IN  /\ fmClaps' = IF setClaps THEN num ELSE fmClaps
           /\ fmComments' = IF setComments THEN num ELSE fmComments
           /\ fmAssigned' =
                 IF setComments THEN Append(afterClaps, Assigned("comments", fmComments))
                 ELSE afterClaps
    /\ fmI' = fmI + 1
    /\ UNCHANGED <<mode, fmEl, fmPc, mergeVars, scrapeVars, mainVars, scrollVars>>

\* the loop over buttons ends; if (claps === null) the text walk follows
ButtonsEnd ==
    /\ mode = "metrics" /\ fmPc = "buttons" /\ fmI = Len(buttons(fmEl))
    /\ fmPc' = IF fmClaps = Null THEN "textNodes" ELSE "return"
    /\ fmI' = 0
    /\ UNCHANGED <<mode, fmEl, fmClaps, fmComments, fmAssigned,
                   mergeVars, scrapeVars, mainVars, scrollVars>>

\* the text walk and its two assignments
TextWalk ==
    /\ mode = "metrics" /\ fmPc = "textNodes"
    /\ LET nodes == textNodes(fmEl)
           setClaps == Len(nodes) > 0 /\ fmClaps = Null
           setComments == Len(nodes) > 1 /\ fmComments = Null
           afterClaps ==
               IF setClaps THEN Append(fmAssigned, Assigned("claps", fmClaps))
               ELSE fmAssigned
       IN  /\ fmClaps' = IF setClaps THEN toNum(nodes[1]) ELSE fmClaps
           /\ fmComments' = IF setComments THEN toNum(nodes[2]) ELSE fmComments
           /\ fmAssigned' =
                 IF setComments THEN Append(afterClaps, Assigned("comments", fmComments))
                 ELSE afterClaps
    /\ fmPc' = "return"
    /\ UNCHANGED <<mode, fmEl, fmI, mergeVars, scrapeVars, mainVars, scrollVars>>

MetricsNext ==
    \/ ClapElementStep \/ ClapElementsEnd
    \/ SvgStep \/ SvgsEnd
    \/ ButtonStep \/ ButtonsEnd
    \/ TextWalk

SpecMetrics == MetricsInit /\ [][MetricsNext]_vars

----------------------------------------------------------------------------
WithoutCreatedAt(s) == [i \in 1..Len(s) |-> [s[i] EXCEPT !.createdAt = 0]]

ClapsOf(s) == [i \in 1..Len(s) |-> OrZero(s[i].claps)]

Occurrences(s, x) == Cardinality({i \in 1..Len(s) : s[i] = x})

SameRecords(s, t) ==
    /\ Len(s) = Len(t)
    /\ \A x \in Range(s) \cup Range(t) : Occurrences(s, x) = Occurrences(t, x)

ClapsTie(a, b) == \E x \in Range(a), y \in Range(b) : OrZero(x.claps) = OrZero(y.claps)

\* C6 (as stated): merging A and then B yields the same collection, record for
\* record in the same order and ignoring createdAt, as merging A followed by B
\* in a single pass.
C6_TwoRunsEqualOnePass ==
    mPhase = "done" => WithoutCreatedAt(mOutAB) = WithoutCreatedAt(mOutUnion)

\* C6 (amended): the two results hold the same records and the same sequence of
\* claps; they are the same sequence whenever no record of A has the same claps
\* (null as 0) as a record of B.
C6_TwoRunsSameRecords ==
    mPhase = "done" =>
        /\ SameRecords(mOutAB, mOutUnion)
        /\ ClapsOf(mOutAB) = ClapsOf(mOutUnion)
        /\ ~ClapsTie(mFresh, mFreshB) => mOutAB = mOutUnion

C6_Witness ==
    /\ mPhase = "done"
    /\ mExisting # <<>> /\ mFresh # <<>> /\ mFreshB # <<>>
    /\ ~ClapsTie(mFresh, mFreshB)
    /\ mOutAB = mOutUnion
    /\ Len(mOutAB) = Len(mExisting) + Len(mFresh) + Len(mFreshB)

----------------------------------------------------------------------------
NoDuplicateUrls(s) == \A i, j \in 1..Len(s) : s[i].url = s[j].url => i = j

SortedByClaps(s) == \A i \in 1..(Len(s) - 1) : OrZero(s[i].claps) >= OrZero(s[i+1].claps)

\* C2: in the store every (tag, url) pair appears at most once: no collection
\* that mergeArticles returned holds two records with the same URL.
C2_NoDuplicateUrls ==
    \A t \in DOMAIN existingData : NoDuplicateUrls(existingData[t])

\* C3: every collection of the store, in memory and in the file, is sorted by
\* claps in non-increasing order with null claps counted as 0.
C3_StoreSortedByClaps ==
    /\ \A t \in DOMAIN existingData : SortedByClaps(existingData[t])
    /\ \A t \in DOMAIN file : SortedByClaps(file[t])

C3_Witness ==
    /\ pc = "closing" /\ fileValid
    /\ \E t \in DOMAIN file :
          /\ Len(file[t]) >= 3
          /\ \E i, j \in 1..Len(file[t]) :
                /\ file[t][i].claps = Null /\ file[t][j].claps # Null
                /\ file[t][i].createdAt # file[t][j].createdAt

WriteFailedInRun == \E i \in 1..Len(log) : log[i].write = "failed"

\* C4 (as stated): a failed write is not handled locally; it ends the process
\* in the fatal error state, so nothing is scraped or written after it.
C4_WriteFailureIsFatal ==
    WriteFailedInRun => pc = "fatal"

WriteFailsStep ==
    /\ pc = "writing" /\ Len(log') = Len(log) /\ Last(log').write = "failed"

\* C4 (amended): a failed write is caught by the try/catch around the loop
\* body: the loop goes on to the next tag (to browser.close() after the last
\* one), the process does not become fatal, and the in-memory store keeps the
\* merged collection, which the next successful write puts into the file.
C4_WriteFailureIsCaught ==
    /\ [][WriteFailsStep =>
            /\ pc' = (IF idx < Len(tags) THEN "scraping" ELSE "closing")
            /\ idx' = idx + 1
            /\ existingData' = existingData]_vars
    /\ [][(WriteFailedInRun /\ pc = "writing" /\ Last(log').write = "ok") =>
            \A i \in 1..Len(log) :
                log[i].write = "failed" =>
                    /\ log[i].tag \in DOMAIN file'
                    /\ file'[log[i].tag] = existingData[log[i].tag]]_vars

C4_Witness ==
    /\ pc = "closing" /\ Len(log) = 2
    /\ log[1].write = "failed" /\ log[2].scrape = "ok" /\ log[2].write = "ok"
    /\ fileValid /\ file = existingData
    /\ log[1].tag \in DOMAIN file /\ file[log[1].tag] # <<>>

RenderFailsStep ==
    /\ pc = "scraping" /\ Len(log') = Len(log) + 1 /\ Last(log').scrape = "renderfail"

\* C5: a render failure gives an empty fresh result for that tag only.  The
\* step keeps every stored record of the tag and of the other tags and goes on
\* to the write; the loop reaches every tag of the list, each tag whose
\* scrape returned (with articles or empty) is merged and its write attempted;
\* and a write never removes a URL the file already held.
C5_RenderFailureIsLocal ==
    /\ [][RenderFailsStep =>
            /\ articles' = <<>>
            /\ TagArticles(existingData', tags[idx]) = TagArticles(existingData, tags[idx])
            /\ \A t \in DOMAIN existingData : existingData'[t] = existingData[t]
            /\ file' = file /\ fileValid' = fileValid
            /\ pc' = "writing" /\ idx' = idx]_vars
    /\ [][(pc = "writing" /\ Last(log').write = "ok") => (file' = existingData /\ fileValid')]_vars
    /\ [][(fileValid /\ fileValid') =>
            \A t \in DOMAIN file : UrlSet(file[t]) \subseteq UrlSet(TagArticles(file', t))]_vars
    /\ [](pc \in {"closing", "exited"} =>
            /\ Len(log) = Len(tags)
            /\ \A i \in 1..Len(tags) :
                  /\ log[i].tag = tags[i]
                  /\ log[i].scrape \in {"ok", "renderfail"} => log[i].write \in {"ok", "failed"})

C5_Witness ==
    /\ pc = "closing" /\ Len(log) = 2
    /\ log[1].scrape = "renderfail" /\ log[1].write = "ok"
    /\ log[2].scrape = "ok" /\ log[2].write = "ok"
    /\ fileValid
    /\ log[1].tag \in DOMAIN file /\ file[log[1].tag] # <<>>
    /\ file[log[2].tag] # <<>>

----------------------------------------------------------------------------
\* the title contains the keyword, compared character by character without case
ContainsNoCase(title, kw) ==
    \E off \in 0..(Len(title) - Len(kw)) :
        \A j \in 1..Len(kw) : LowerChar(title[off + j]) = LowerChar(kw[j])

KeywordsPass(x, o) ==
    /\ o.include = <<>> \/ \E k \in Range(o.include) : ContainsNoCase(x.title, k)
    /\ o.exclude = <<>> \/ \A k \in Range(o.exclude) : ~ContainsNoCase(x.title, k)

Survives(x, o) == KeywordsPass(x, o) /\ (x.claps = Null \/ x.claps[1] >= o.minClaps)

Candidates == SelectSeq(Normalized(sItems, MergeTag, 1), LAMBDA x : x.url # NullUrl)

\* C7: a candidate survives the filters exactly when (no include keywords or
\* the title contains one, ignoring case) and (no exclude keywords or the title
\* contains none) and (claps is null or claps >= minClaps); a title matching an
\* exclude keyword is dropped whatever it includes, and null claps pass any
\* threshold.
C7_FilterPipeline ==
    sPhase = "scraped" =>
        /\ sKept = SelectSeq(Candidates, LAMBDA x : Survives(x, sOpts))
        /\ \A x \in Range(Candidates) :
              /\ (\E k \in Range(sOpts.exclude) : ContainsNoCase(x.title, k)) => x \notin Range(sKept)
              /\ (x.claps = Null /\ KeywordsPass(x, sOpts)) => x \in Range(sKept)

C7_Witness ==
    /\ sPhase = "scraped"
    /\ sOpts.minClaps = 2 /\ sOpts.include # <<>> /\ sOpts.exclude # <<>>
    /\ Len(Candidates) = 2 /\ Len(sKept) = 1
    /\ Candidates[1].title = T3 /\ Candidates[1].claps = Num(2)
    /\ sKept[1].title = T1 /\ sKept[1].claps = Null

\* C8: one scrape returns at most `limit` articles, for every limit parseArgs
\* produces (a limit below 0 read as "none").
C8_ScrapeAtMostLimit ==
    sPhase = "scraped" => Len(sOut) <= Max(sOpts.limit, 0)

----------------------------------------------------------------------------
\* the check after the scroll and the re-check of the current iteration
RecheckDone == scNew # 0 /\ scFinal # 0

BothChecksNoGrowth == RecheckDone /\ scNew <= scSeen /\ scFinal <= scSeen

BothChecksEqual == RecheckDone /\ scNew = scSeen /\ scFinal = scSeen

\* C10 (as stated): autoScroll makes at most maxScrolls scrolls and leaves the
\* loop early exactly when the check after a scroll and the following re-check
\* both observe no growth over the recorded height.
C10_StopsExactlyOnNoGrowth ==
    scPc = "done" =>
        /\ scScrolls <= Max(scMax, 0)
        /\ scBroke <=> BothChecksNoGrowth

\* C10 (amended): autoScroll terminates, makes at most maxScrolls scrolls (none
\* when maxScrolls <= 0), and leaves the loop by `break` exactly when the check
\* after a scroll and the following re-check both observe a height equal to
\* the recorded one; a height that shrank is a change and the loop goes on.
\* Without a break it makes exactly maxScrolls scrolls; a break in the last
\* pass comes after maxScrolls scrolls too.
C10_StopsExactlyOnEqualHeights ==
    /\ <>(scPc = "done")
    /\ [](/\ scScrolls <= Max(scMax, 0)
          /\ scBroke <=> BothChecksEqual
          /\ scBroke => scPc = "done"
          /\ (scPc = "done" /\ ~scBroke) => scScrolls = Max(scMax, 0))

C10_Witness ==
    /\ scPc = "done" /\ scBroke
    /\ scScrolls = 3 /\ scScrolls < scMax
    /\ BothChecksEqual

AssignmentsTo(metric) == SelectSeq(fmAssigned, LAMBDA a : a[1] = metric)

\* C11: while findMetrics works on one container, each of claps and comments
\* is assigned at most once, and every assignment finds its metric still
\* null: a metric that holds a value is not assigned again by a later element
\* or a later strategy.
C11_EachMetricResolvedOnce ==
    /\ Len(AssignmentsTo("claps")) <= 1
    /\ Len(AssignmentsTo("comments")) <= 1
    /\ \A i \in 1..Len(fmAssigned) : fmAssigned[i][2] = Null

====
